---- MODULE Spec2Model ----
(***************************************************************************)
(* fema-web-declaration: the paginated retrieval of src/main.rs.           *)
(*                                                                         *)
(* main() loads its configuration, requests page 0 of the FEMA endpoint    *)
(* with metadata, reads the total count, requests the following pages one  *)
(* after the other, and writes the collected entries to a CSV file.        *)
(* The HTTP server, the configuration store and the file system are the    *)
(* environment: their answers are chosen nondeterministically.             *)
(*                                                                         *)
(* Spec is the whole run and FairSpec the run under fair scheduling;       *)
(* SpecEngine is the retrieval alone against a consistent server and one   *)
(* that disregards the page size; SpecUri and SpecRange apply get_uri and  *)
(* the (start, end) arithmetic of the loop to arguments of their own.      *)
(***************************************************************************)
EXTENDS Integers, Sequences, FiniteSets, TLC

\* ------------------------------------------------------------------ bounds

\* The largest number of full pages the reported count spans.
MaxFullPages == 2

\* The largest number of entries the server puts in one response body.
MaxPageLen == 2

\* ------------------------------------------------------- program constants

\* main.rs:145  let size: usize = 1000;
size == 1000

\* main.rs:141
base_uri == "https://www.fema.gov/api/open/v1/FemaWebDeclarationAreas"

\* Option<T>: None, or Some(v) as the one-element tuple <<v>>.
None == <<>>
Some(v) == <<v>>

\* ------------------------------------------------------------ environment

\* The cutoff instants (now - 365 days * num_years_previous), already
\* formatted by to_rfc3339_opts(SecondsFormat::Millis, true).
Cutoffs == {"2023-11-02T08:15:30.250Z", "2021-11-02T08:15:30.250Z"}

\* The values of cfg.csv a configuration file can hold (Config, main.rs:28-35).
CsvOptions == {None, Some("out.csv")}

\* The counts page 0's metadata may report (Metadata.count is an i32): every
\* page boundary up to MaxFullPages full pages, and a negative one.
Counts ==
    {-1} \cup {k * size + r : k \in 0..MaxFullPages, r \in {0, 1, 500, 999}}

\* --------------------------------------------------------------- get_uri

Digit(d) ==
    CASE d = 0 -> "0" [] d = 1 -> "1" [] d = 2 -> "2" [] d = 3 -> "3"
      [] d = 4 -> "4" [] d = 5 -> "5" [] d = 6 -> "6" [] d = 7 -> "7"
      [] d = 8 -> "8" [] d = 9 -> "9"

\* Display for usize: decimal digits, no sign, no leading zero.
RECURSIVE fmt_usize(_)
fmt_usize(n) ==
    IF n < 10 THEN Digit(n) ELSE fmt_usize(n \div 10) \o Digit(n % 10)

\* The flag's two texts exchanged.
md_str_swapped(metadata) == IF metadata THEN "off" ELSE "on"

\* main.rs:97-104
md_str(metadata) == IF metadata THEN "on" ELSE "off"

\* get_uri with one-based page offsets.
get_uri_one_based(metadata, base, q, pg, sz) ==
    IF sz # None
    THEN LET s == sz[1] IN
         base \o "?" \o q \o "&$skip=" \o fmt_usize((pg + 1) * s)
              \o "&$top=" \o fmt_usize(s)
              \o "&$metadata=" \o md_str(metadata)
    ELSE base \o "?" \o q \o "&$metadata=" \o md_str(metadata)

\* get_uri skipping pages instead of records.
get_uri_skip_pages(metadata, base, q, pg, sz) ==
    IF sz # None
    THEN LET s == sz[1] IN
         base \o "?" \o q \o "&$skip=" \o fmt_usize(pg)
              \o "&$top=" \o fmt_usize(s)
              \o "&$metadata=" \o md_str(metadata)
    ELSE base \o "?" \o q \o "&$metadata=" \o md_str(metadata)

\* main.rs:96-113
get_uri(metadata, base, q, pg, sz) ==
    IF sz # None
    THEN LET s == sz[1] IN
         base \o "?" \o q \o "&$skip=" \o fmt_usize(pg * s)
              \o "&$top=" \o fmt_usize(s)
              \o "&$metadata=" \o md_str(metadata)
    ELSE base \o "?" \o q \o "&$metadata=" \o md_str(metadata)

\* main.rs:143-144
build_query(cutoff) ==
    "$inlinecount=allpages&$select=disasterNumber,programTypeCode,programTypeDescription,stateCode,placeCode,placeName,designatedDate,entryDate,updateDate,hash,lastRefresh&$filter=designatedDate gt'"
        \o cutoff \o "' and closeoutDate eq null"

\* ------------------------------------------------------------------ state

VARIABLES
    pc,         \* where main() stands
    err,        \* the category of the error main() returned, "none" before
    cfg,        \* the loaded Config (its csv field)
    query,      \* main.rs:143
    requests,   \* every get_uri call with the URI it gave, in order; in
                \* main() each one is a reqwest::get
    responses,  \* every response resolved, in order
    inflight,   \* requests issued and not yet resolved
    served,     \* server side: how many records it has handed out
    count,      \* main.rs:151
    entries,    \* main.rs:153, the accumulator
    page,       \* main.rs:157, the loop variable
    exported,   \* csv::Writer::from_path has been called
    file,       \* the output destination
    written,    \* how many entries the export loop has consumed
    log,        \* main.rs:162, the (start, end) of every "Requesting results"
    server      \* server side: how it answers (see AnswersTo)

vars == <<pc, err, cfg, query, requests, responses, inflight, served, count,
          entries, page, exported, file, written, log, server>>

\* -------------------------------------------------------- serde / reqwest

\* A response body has one of three JSON shapes: "meta", an object with the
\* metadata object and the entry array; "plain", an object with the entry
\* array alone; "garbage", anything else.
\* serde_json into ResponseWithMetaData (main.rs:88-93) needs the metadata
\* object and the entry array; into Response (main.rs:57-61) the entry array
\* alone, unknown fields being ignored.
Deserializes(envelope, shape) ==
    IF envelope = "ResponseWithMetaData"
    THEN shape = "meta"
    ELSE shape \in {"meta", "plain"}

\* What `reqwest::get(..).await?.error_for_status()?.json::<T>().await?`
\* yields for a server answer: the error category, or "ok".
Outcome(envelope, answer) ==
    IF answer.kind = "transport" THEN "transport"
    ELSE IF ~answer.success THEN "status"
    ELSE IF ~Deserializes(envelope, answer.shape) THEN "deserialize"
    ELSE "ok"

\* The n records the server hands out next, in its order.
Body(n) == [k \in 1..n |-> served + k]

\* Every answer the server may give to one request.
Answers ==
    {[kind |-> "transport", success |-> FALSE, shape |-> "garbage",
      count |-> 0, len |-> 0]}
    \cup
    {[kind |-> "http", success |-> FALSE, shape |-> "garbage",
      count |-> 0, len |-> 0]}
    \cup
    {[kind |-> "http", success |-> TRUE, shape |-> "garbage",
      count |-> 0, len |-> 0]}
    \cup
    [kind : {"http"}, success : {TRUE}, shape : {"meta"},
     count : Counts, len : server.lens]
    \cup
    [kind : {"http"}, success : {TRUE}, shape : {"plain"},
     count : {0}, len : server.lens]

\* A server that answers as it likes, with bodies of up to MaxPageLen
\* entries.
AnyServer == [held |-> None, lens |-> 0..MaxPageLen]

\* A server that answers as it likes and disregards $top: its bodies are
\* empty, short, or one entry longer than the page size.
OversizeServer == [held |-> None, lens |-> {0, 1, size + 1}]

\* A consistent server: it holds n matching records 1 .. n in a fixed order,
\* reports count = n and answers (skip, top) with records
\* skip + 1 .. min(skip + top, n).
ConsistentServer(n) == [held |-> Some(n), lens |-> {}]

\* The decimal text of the offsets and sizes the checked runs use, written out.
DecimalText(n) ==
    CASE n = 0 -> "0" [] n = 1 -> "1" [] n = 2 -> "2" [] n = 3 -> "3"
      [] n = 4 -> "4" [] n = 5 -> "5" [] n = 500 -> "500"
      [] n = 1000 -> "1000" [] n = 1500 -> "1500" [] n = 2000 -> "2000"
      [] n = 2500 -> "2500" [] n = 3000 -> "3000" [] n = 4000 -> "4000"
      [] n = 5000 -> "5000"

\* The offsets the consistent server is asked for in the checked runs.
Skips == {k * size : k \in 0..(MaxFullPages + 2)}

\* The consistent server reads a request: the $skip values s for which the
\* URI is base ? query &$skip=s &$top=1000 &$metadata=md (none when the URI
\* is not of this form).
ParsedSkip(uri, md) ==
    {s \in Skips :
        uri = base_uri \o "?" \o query \o "&$skip=" \o DecimalText(s)
                  \o "&$top=" \o DecimalText(size) \o "&$metadata=" \o md}

Min(a, b) == IF a < b THEN a ELSE b

\* The consistent server's answer to the request r: 400 for a URI it cannot
\* read, else the slice asked for, with the metadata when it is asked for.
ConsistentAnswer(r) ==
    LET on == ParsedSkip(r.uri, "on")
        off == ParsedSkip(r.uri, "off")
        n == server.held[1]
    IN
    IF on \cup off = {}
    THEN [kind |-> "http", success |-> FALSE, shape |-> "garbage",
          count |-> 0, len |-> 0, skip |-> 0]
    ELSE LET s == CHOOSE x \in on \cup off : TRUE IN
         [kind |-> "http", success |-> TRUE,
          shape |-> IF on # {} THEN "meta" ELSE "plain",
          count |-> n,
          len |-> IF s < n THEN Min(s + size, n) - s ELSE 0,
          skip |-> s]

\* The answers the server may give to the request r.
AnswersTo(r) ==
    IF server.held = None THEN Answers ELSE {ConsistentAnswer(r)}

\* The entries of the successful answer a, in the server's order.
Records(a) ==
    IF server.held = None THEN Body(a.len)
    ELSE [k \in 1..a.len |-> a.skip + k]

\* -------------------------------------------------------------------- Init

Init ==
    /\ pc = "start"
    /\ err = "none"
    /\ cfg = [csv |-> None]
    /\ query = ""
    /\ requests = <<>>
    /\ responses = <<>>
    /\ inflight = 0
    /\ served = 0
    /\ count = 0
    /\ entries = <<>>
    /\ page = 0
    /\ exported = FALSE
    /\ file = [opened |-> FALSE, header |-> FALSE, rows |-> <<>>]
    /\ written = 0
    /\ log = <<>>
    /\ server = AnyServer

\* ----------------------------------------------------------------- main

\* The range end without its + 1.
range_end_floor(c) == c \div size

\* The range end rounded up instead of floor + 1.
range_end_ceil(c) == (c + size - 1) \div size

\* The range taken inclusive, 1 ..= count / size + 1.
range_end_inclusive(c) == c \div size + 2

\* main.rs:157  the exclusive end of `1 .. count as usize / size + 1`.
\* Reached only with count >= 0 (see capacity_overflow), where
\* `count as usize` is count itself.
range_end(c) == c \div size + 1

\* main.rs:153  Vec::with_capacity(count as usize) panics with "capacity
\* overflow" when the byte size exceeds isize::MAX: a negative i32 cast to
\* usize is at least 2^64 - 2^31 elements of a non-zero-sized Entry.
capacity_overflow(c) == c < 0

\* The page's entries put in front of the accumulator.
push_all_front(acc, body) == body \o acc

\* main.rs:154-156 and 169-171  for entry in ... { entries.push(entry) }
push_all(acc, body) == acc \o body

\* The export entered whatever cfg.csv holds.
has_destination_always(c) == TRUE

\* The loop left at the first page that is not full.
next_page_stop_short(p, body) ==
    IF Len(body) < size THEN range_end(count) ELSE p + 1

\* main.rs:157  the range hands the loop its next index, whatever the page
\* just received held.
next_page(p, body) == p + 1

\* i32::MAX and i32::MIN (main.rs:158, `end` is an i32).
MaxI32 == 2147483647
MinI32 == -MaxI32 - 1

\* a * b in i32 for a, b > 0 with 2^31 <= a * b < 2^32, as a release build
\* wraps it: a * b - 2^32, computed without leaving the 32 bits.
wrapping_mul(a, b) ==
    LET q == MaxI32 \div b IN
    MinI32 + ((a - q) * b + (q * b - MaxI32) - 1)

\* main.rs:158-161  (start, end) of the page p: start = page*size,
\* end = (page as i32 + 1) * size as i32, cut down to count. When the i32
\* product overflows, a build with overflow checks panics and one without
\* wraps: both outcomes are in the set.
page_range(p, c) ==
    LET start == p * size
        cut(e) == IF e > c THEN c ELSE e
    IN
    IF p + 1 <= MaxI32 \div size
    THEN {[panic |-> FALSE, start |-> start, end |-> cut((p + 1) * size)]}
    ELSE {[panic |-> TRUE, start |-> start, end |-> 0],
          [panic |-> FALSE, start |-> start,
           end |-> cut(wrapping_mul(p + 1, size))]}

\* main.rs:174  if let Some(path) = &cfg.csv
has_destination(c) == c.csv # None

\* The record written as the first row instead of the last.
append_row_front(f, e) == [f EXCEPT !.header = TRUE, !.rows = <<e>> \o @]

\* The record written twice.
append_row_twice(f, e) ==
    [f EXCEPT !.header = TRUE, !.rows = Append(Append(@, e), e)]

\* main.rs:177  csvwriter.serialize(entry): the header row before the first
\* record, then the record as the last row.
append_row(f, e) == [f EXCEPT !.header = TRUE, !.rows = Append(@, e)]

\* One call get_uri(metadata, base, q, pg, sz) and the URI it returns.
Call(metadata, base, q, pg, sz) ==
    [metadata |-> metadata, base |-> base, query |-> q, page |-> pg,
     size |-> sz, uri |-> get_uri(metadata, base, q, pg, sz)]

\* A failed request whose error is never returned: main() hangs on it.
after_fetch_hang(o) == IF o = "ok" THEN "loop" ELSE "hung"

\* A failed request that does not end main().
after_fetch_swallow(o) == "loop"

\* The `?` of main.rs:147-150 and 164-167: where main() goes once a request
\* has resolved with outcome o.
after_fetch(o) == IF o = "ok" THEN "loop" ELSE "failed"

\* A configuration that cannot be loaded replaced by Config::default(), the
\* error kept for the report.
LoadConfig_fallback ==
    /\ pc = "start"
    /\ \/ /\ pc' = "panicked"
          /\ UNCHANGED <<err, cfg, query>>
       \/ \E cutoff \in Cutoffs :
             /\ cfg' = [csv |-> Some("out.csv")]
             /\ query' = build_query(cutoff)
             /\ pc' = "configured"
             /\ err' = "config"
       \/ \E csv \in CsvOptions, cutoff \in Cutoffs :
             /\ cfg' = [csv |-> csv]
             /\ query' = build_query(cutoff)
             /\ pc' = "configured"
             /\ err' = err
    /\ UNCHANGED <<requests, responses, inflight, served, count, entries,
                   page, exported, file, written>>
    /\ UNCHANGED <<log, server>>

\* main.rs:117-145  configuration, logger, cutoff and query.
LoadConfig ==
    /\ pc = "start"
    /\ \/ \* ProjectDirs::from gives None: panic!
          /\ pc' = "panicked"
          /\ UNCHANGED <<err, cfg, query>>
       \/ \* confy::load, fs::copy or log4rs::load_config_file fails
          /\ pc' = "failed"
          /\ err' = "config"
          /\ UNCHANGED <<cfg, query>>
       \/ \E csv \in CsvOptions, cutoff \in Cutoffs :
             /\ cfg' = [csv |-> csv]
             /\ query' = build_query(cutoff)
             /\ pc' = "configured"
             /\ err' = err
    /\ UNCHANGED <<requests, responses, inflight, served, count, entries,
                   page, exported, file, written>>
    /\ UNCHANGED <<log, server>>

\* main.rs:146  the request for page 0 is built and sent.
RequestFirstPage ==
    /\ pc = "configured"
    /\ requests' = Append(requests,
                          Call(TRUE, base_uri, query, 0, Some(size)))
    /\ inflight' = inflight + 1
    /\ pc' = "await0"
    /\ UNCHANGED <<err, cfg, query, responses, served, count, entries, page,
                   exported, file, written>>
    /\ UNCHANGED <<log, server>>

\* main.rs:147-156  page 0 resolves; count is read, the accumulator is
\* allocated and page 0's entries are pushed.
ReceiveFirstPage ==
    /\ pc = "await0"
    /\ \E a \in AnswersTo(requests[Len(requests)]) :
         LET o == Outcome("ResponseWithMetaData", a)
             body == IF o = "ok" THEN Records(a) ELSE <<>>
         IN
         /\ inflight' = inflight - 1
         /\ responses' = Append(responses,
                [page |-> 0, envelope |-> "ResponseWithMetaData",
                 outcome |-> o, entries |-> body])
         /\ served' = served + Len(body)
         /\ IF o # "ok"
            THEN /\ pc' = after_fetch(o)
                 /\ err' = o
                 /\ UNCHANGED <<count, entries, page>>
            ELSE /\ count' = a.count
                 /\ err' = err
                 /\ IF capacity_overflow(a.count)
                    THEN /\ pc' = "panicked"
                         /\ UNCHANGED <<entries, page>>
                    ELSE /\ entries' = push_all(<<>>, body)
                         /\ page' = 1
                         /\ pc' = after_fetch(o)
    /\ UNCHANGED <<cfg, query, requests, exported, file, written>>
    /\ UNCHANGED <<log, server>>

\* The next request sent while the last one is still awaited.
RequestPage_pipelined ==
    /\ pc \in {"loop", "await"}
    /\ page + inflight < range_end(count)
    /\ log' = log
    /\ requests' = Append(requests,
           Call(FALSE, base_uri, query, page + inflight, Some(size)))
    /\ inflight' = inflight + 1
    /\ pc' = "await"
    /\ UNCHANGED <<err, cfg, query, responses, served, count, entries, page,
                   exported, file, written>>
    /\ UNCHANGED server

\* main.rs:157-163  the loop takes the next page index, logs its range and
\* sends its request.
RequestPage ==
    /\ pc = "loop"
    /\ page < range_end(count)
    /\ \E r \in page_range(page, count) :
          IF r.panic
          THEN /\ pc' = "panicked"
               /\ UNCHANGED <<requests, inflight, log>>
          ELSE /\ log' = Append(log, [start |-> r.start, end |-> r.end])
               /\ requests' = Append(requests,
                      Call(FALSE, base_uri, query, page, Some(size)))
               /\ inflight' = inflight + 1
               /\ pc' = "await"
    /\ UNCHANGED <<err, cfg, query, responses, served, count, entries, page,
                   exported, file, written>>
    /\ UNCHANGED server

\* main.rs:164-172  the page resolves and its entries are pushed.
ReceivePage ==
    /\ pc = "await"
    /\ \E a \in AnswersTo(requests[Len(requests)]) :
         LET o == Outcome("Response", a)
             body == IF o = "ok" THEN Records(a) ELSE <<>>
         IN
         /\ inflight' = inflight - 1
         /\ responses' = Append(responses,
                [page |-> page, envelope |-> "Response",
                 outcome |-> o, entries |-> body])
         /\ served' = served + Len(body)
         /\ pc' = after_fetch(o)
         /\ IF o # "ok"
            THEN /\ err' = o
                 /\ UNCHANGED <<entries, page>>
            ELSE /\ err' = err
                 /\ entries' = push_all(entries, body)
                 /\ page' = next_page(page, body)
    /\ UNCHANGED <<cfg, query, requests, count, exported, file, written>>
    /\ UNCHANGED <<log, server>>

\* main.rs:157, 173-174  the range is exhausted; the loop is left.
EndLoop ==
    /\ pc = "loop"
    /\ ~(page < range_end(count))
    /\ pc' = "collected"
    /\ UNCHANGED <<err, cfg, query, requests, responses, inflight, served,
                   count, entries, page, exported, file, written>>
    /\ UNCHANGED <<log, server>>

\* main.rs:174, 180-181  cfg.csv is None: nothing is exported, Ok(()).
SkipExport ==
    /\ pc = "collected"
    /\ ~has_destination(cfg)
    /\ pc' = "done"
    /\ UNCHANGED <<err, cfg, query, requests, responses, inflight, served,
                   count, entries, page, exported, file, written>>
    /\ UNCHANGED <<log, server>>

\* main.rs:174-175  csv::Writer::from_path(path)?: File::create makes the
\* file or truncates it, or fails and leaves the path as it was.
OpenWriter ==
    /\ pc = "collected"
    /\ has_destination(cfg)
    /\ exported' = TRUE
    /\ \/ /\ file' = [opened |-> TRUE, header |-> FALSE, rows |-> <<>>]
          /\ pc' = "writing"
          /\ err' = err
       \/ /\ pc' = "failed"
          /\ err' = "export"
          /\ file' = file
    /\ UNCHANGED <<cfg, query, requests, responses, inflight, served, count,
                   entries, page, written>>
    /\ UNCHANGED <<log, server>>

\* main.rs:176-178  csvwriter.serialize(entry)?: the header goes out with
\* the first record, then one row per entry; on an error main() returns and
\* the dropped writer flushes what it holds.
WriteEntry ==
    /\ pc = "writing"
    /\ written < Len(entries)
    /\ \/ /\ file' = append_row(file, entries[written + 1])
          /\ written' = written + 1
          /\ UNCHANGED <<pc, err>>
       \/ /\ pc' = "failed"
          /\ err' = "export"
          /\ UNCHANGED <<file, written>>
    /\ UNCHANGED <<cfg, query, requests, responses, inflight, served, count,
                   entries, page, exported>>
    /\ UNCHANGED <<log, server>>

\* main.rs:176, 179-181  every entry is written: the writer is dropped, Ok(()).
FinishExport ==
    /\ pc = "writing"
    /\ written = Len(entries)
    /\ pc' = "done"
    /\ UNCHANGED <<err, cfg, query, requests, responses, inflight, served,
                   count, entries, page, exported, file, written>>
    /\ UNCHANGED <<log, server>>

Next ==
    \/ LoadConfig
    \/ RequestFirstPage
    \/ ReceiveFirstPage
    \/ RequestPage
    \/ ReceivePage
    \/ EndLoop
    \/ SkipExport
    \/ OpenWriter
    \/ WriteEntry
    \/ FinishExport

Spec == Init /\ [][Next]_vars

\* main() is one thread of control that takes its next step whenever it has
\* one, and every request issued resolves in the end: no step of Next stays
\* enabled forever without being taken.
FairSpec == Spec /\ WF_vars(Next)

TypeOK ==
    /\ pc \in {"start", "configured", "await0", "loop", "await", "collected",
               "writing", "done", "failed", "panicked"}
    /\ err \in {"none", "config", "transport", "status", "deserialize",
                "export"}
    /\ inflight \in 0..1
    /\ count \in Counts \cup {0}
    /\ written \in 0..Len(entries)

\* ------------------------------------------------------- get_uri alone

\* The largest page index get_uri is called with on its own.
MaxUriPage == 3

UriBases == {"https://x", base_uri}
UriQueries == {"q=1", "", build_query("2023-11-02T08:15:30.250Z")}
UriSizes == {None, Some(1), Some(500), Some(size)}

InitUri ==
    /\ pc = "get_uri"
    /\ err = "none"
    /\ cfg = [csv |-> None]
    /\ query = ""
    /\ requests = <<>>
    /\ responses = <<>>
    /\ inflight = 0
    /\ served = 0
    /\ count = 0
    /\ entries = <<>>
    /\ page = 0
    /\ exported = FALSE
    /\ file = [opened |-> FALSE, header |-> FALSE, rows |-> <<>>]
    /\ written = 0
    /\ log = <<>>
    /\ server = AnyServer

\* One call of get_uri with arguments of the caller's choice; requests
\* holds the call and its result.
GetUri ==
    /\ pc = "get_uri"
    /\ \E metadata \in BOOLEAN, base \in UriBases, q \in UriQueries,
          pg \in 0..MaxUriPage, sz \in UriSizes :
          requests' = <<Call(metadata, base, q, pg, sz)>>
    /\ UNCHANGED <<pc, err, cfg, query, responses, inflight, served, count,
                   entries, page, exported, file, written>>
    /\ UNCHANGED <<log, server>>

NextUri == GetUri

SpecUri == InitUri /\ [][NextUri]_vars

\* ------------------------------------------- the pagination engine alone

\* The record counts the consistent server holds.
Catalogues == Counts \ {-1}

\* main() with its configuration loaded (main.rs:146), facing a consistent
\* server or one that disregards $top.
InitEngine ==
    /\ pc = "configured"
    /\ err = "none"
    /\ \E csv \in CsvOptions : cfg = [csv |-> csv]
    /\ \E cutoff \in Cutoffs : query = build_query(cutoff)
    /\ requests = <<>>
    /\ responses = <<>>
    /\ inflight = 0
    /\ served = 0
    /\ count = 0
    /\ entries = <<>>
    /\ page = 0
    /\ exported = FALSE
    /\ file = [opened |-> FALSE, header |-> FALSE, rows |-> <<>>]
    /\ written = 0
    /\ log = <<>>
    /\ server \in {OversizeServer} \cup {ConsistentServer(n) : n \in Catalogues}

\* main.rs:146-173  the retrieval, up to the collection being complete.
NextEngine ==
    \/ RequestFirstPage
    \/ ReceiveFirstPage
    \/ RequestPage
    \/ ReceivePage
    \/ EndLoop

SpecEngine == InitEngine /\ [][NextEngine]_vars

\* ---------------------------------------------------- page_range alone

\* How far below i32::MAX, and below the first count whose last page
\* overflows, the counts tried reach.
MaxTail == 4

\* The counts the range is computed for: the small ones, the ones up to
\* i32::MAX, and the ones up to (i32::MAX / size) * size.
RangeCounts ==
    Catalogues
    \cup {MaxI32 - d : d \in 0..MaxTail}
    \cup {(MaxI32 \div size) * size - d : d \in 0..MaxTail}

\* Page indices the loop of main.rs:157 takes for the count c: its first
\* ones and its last two.
RangePages(c) ==
    {p \in (1..(MaxFullPages + 1)) \cup {c \div size - 1, c \div size} :
        1 <= p /\ p < range_end(c)}

\* The loop of main.rs:157 at page, with count read from page 0.
InitRange ==
    /\ pc = "range"
    /\ err = "none"
    /\ cfg = [csv |-> None]
    /\ query = ""
    /\ requests = <<>>
    /\ responses = <<>>
    /\ inflight = 0
    /\ served = 0
    /\ count \in RangeCounts
    /\ page \in RangePages(count)
    /\ entries = <<>>
    /\ exported = FALSE
    /\ file = [opened |-> FALSE, header |-> FALSE, rows |-> <<>>]
    /\ written = 0
    /\ log = <<>>
    /\ server = AnyServer

\* main.rs:158-162  the range of the page is computed and logged.
LogRange ==
    /\ pc = "range"
    /\ \E r \in page_range(page, count) :
          IF r.panic
          THEN pc' = "panicked" /\ log' = log
          ELSE /\ pc' = "ranged"
               /\ log' = <<[start |-> r.start, end |-> r.end]>>
    /\ UNCHANGED <<err, cfg, query, requests, responses, inflight, served,
                   count, entries, page, exported, file, written, server>>

NextRange == LogRange

SpecRange == InitRange /\ [][NextRange]_vars

\* ---------------------------------------------------------------- claims

\* Every page has been retrieved: main() is past the loop of main.rs:157-172.
Retrieved ==
    \/ pc \in {"collected", "writing", "done"}
    \/ pc = "failed" /\ err = "export"

\* The URI of the request for page k as the specification words it.
PageUri(k) ==
    base_uri \o "?" \o query \o "&$skip=" \o DecimalText(k * size)
        \o "&$top=1000&$metadata=" \o (IF k = 0 THEN "on" ELSE "off")

\* C1: once every page has been retrieved, the total page count the loop
\* ran to (its variable at exit) is floor(count / size) + 1, that is the one
\* T with (T - 1) * size <= count < T * size, and the requests issued after
\* page 0 number T - 1.
C1_TotalPages ==
    Retrieved =>
        /\ (page - 1) * size <= count
        /\ count < page * size
        /\ Len(requests) - 1 = page - 1

C1_Witness ==
    /\ pc = "done"
    /\ count = 2500
    /\ page = 3
    /\ Len(requests) = 3

\* C2: a run in which the request for some page failed (transport, status
\* or deserialization) has not invoked the exporter and has left the output
\* destination unopened and unwritten.
C2_FailureBeforeExport ==
    (\E i \in 1..Len(responses) : responses[i].outcome # "ok") =>
        /\ ~exported
        /\ file = [opened |-> FALSE, header |-> FALSE, rows |-> <<>>]
        /\ pc = "failed"
        /\ err \in {"transport", "status", "deserialize"}

C2_Witness ==
    /\ pc = "failed"
    /\ err = "deserialize"
    /\ has_destination(cfg)
    /\ Len(responses) = 2
    /\ responses[2].page = 1
    /\ Len(entries) > 0

\* C3: the requests issued are those for pages 0, 1, 2, ... in this order,
\* each once, the one for page k with skip = k * size and top = size; once
\* every page has been retrieved they are exactly pages 0 .. floor(count/size).
C3_RequestSequence ==
    /\ \A i \in 1..Len(requests) :
          /\ requests[i].page = i - 1
          /\ requests[i].uri = PageUri(i - 1)
    /\ Retrieved => Len(requests) = count \div size + 1

C3_Witness ==
    /\ pc = "done"
    /\ count = 2500
    /\ Len(requests) = 3
    /\ requests[1].uri = base_uri \o "?" \o query
                            \o "&$skip=0&$top=1000&$metadata=on"
    /\ requests[2].uri = base_uri \o "?" \o query
                            \o "&$skip=1000&$top=1000&$metadata=off"
    /\ requests[3].uri = base_uri \o "?" \o query
                            \o "&$skip=2000&$top=1000&$metadata=off"

\* The last response resolved is a successful one without entries, for the
\* page right behind a count that is a positive multiple of size.
EmptyTrailingPage ==
    /\ count > 0
    /\ count % size = 0
    /\ responses # <<>>
    /\ responses[Len(responses)].page = count \div size
    /\ responses[Len(responses)].outcome = "ok"
    /\ responses[Len(responses)].entries = <<>>

\* C4: with count a positive multiple of size, the retrieval ends with the
\* request for page count/size, whose skip is count; and an empty successful
\* answer to it is no error: the run goes on to the export and fails only if
\* the export does.
C4_TrailingPage ==
    /\ (Retrieved /\ count > 0 /\ count % size = 0) =>
          /\ requests[Len(requests)].page = count \div size
          /\ requests[Len(requests)].uri =
                base_uri \o "?" \o query \o "&$skip=" \o DecimalText(count)
                    \o "&$top=1000&$metadata=off"
    /\ EmptyTrailingPage =>
          /\ Retrieved \/ pc = "loop"
          /\ err \in {"none", "export"}
          /\ Len(requests) = count \div size + 1

C4_Witness ==
    /\ EmptyTrailingPage
    /\ count = 1000
    /\ Len(requests) = 2
    /\ has_destination(cfg)
    /\ pc = "done"
    /\ err = "none"

\* C5: when the count of page 0's metadata is below size (0 included), one
\* request, the one for page 0, is all that is ever issued, and the
\* collection the retrieval ends with is page 0's entries as received.
C5_SinglePage ==
    (/\ responses # <<>>
     /\ responses[1].outcome = "ok"
     /\ count < size) =>
        /\ Len(requests) = 1
        /\ requests[1].page = 0
        /\ Retrieved => entries = responses[1].entries

C5_Witness ==
    /\ pc = "done"
    /\ count = 999
    /\ Len(requests) = 1
    /\ Len(entries) = 2
    /\ entries = responses[1].entries

\* The entries of the first n responses, one response after the other.
RECURSIVE Concat(_, _)
Concat(rs, n) ==
    IF n = 0 THEN <<>> ELSE Concat(rs, n - 1) \o rs[n].entries

RECURSIVE TotalLen(_, _)
TotalLen(rs, n) ==
    IF n = 0 THEN 0 ELSE TotalLen(rs, n - 1) + Len(rs[n].entries)

\* C6: as long as main() has not panicked, the accumulator is the entries
\* of the pages received so far, page after page in the order of their
\* indices and each page in the server's order, and its length is the sum
\* of the pages' lengths.
C6_Accumulator ==
    pc # "panicked" =>
        /\ entries = Concat(responses, Len(responses))
        /\ Len(entries) = TotalLen(responses, Len(responses))
        /\ \A i \in 1..Len(responses) : responses[i].page = i - 1

C6_Witness ==
    /\ pc = "done"
    /\ Len(responses) = 3
    /\ responses[1].entries = <<1, 2>>
    /\ responses[2].entries = <<3>>
    /\ responses[3].entries = <<4, 5>>
    /\ entries = <<1, 2, 3, 4, 5>>

\* The rows for the first n entries of the accumulator.
Prefix(n) == SubSeq(entries, 1, n)

\* C7 as stated: after a run that ends in failure, whatever the category,
\* the destination does not hold rows for only some of the entries collected.
C7_AllOrNothing ==
    pc \in {"failed", "panicked"} =>
        \/ file.rows = <<>>
        \/ file.rows = entries

\* C7 amended: a run that fails in the configuration or in the retrieval
\* (or panics) leaves the destination unopened and unwritten; a run that
\* fails in the export has the rows of the entries written before the
\* failure, a prefix of the collection that can be a proper one.
C7_AllOrNothingBeforeExport ==
    /\ ((pc = "failed" /\ err # "export") \/ pc = "panicked") =>
          /\ ~exported
          /\ file = [opened |-> FALSE, header |-> FALSE, rows |-> <<>>]
    /\ (pc = "failed" /\ err = "export") =>
          /\ exported
          /\ file.rows = Prefix(written)
          /\ file.opened => written < Len(entries)
          /\ ~file.opened => written = 0

C7_Witness ==
    /\ pc = "failed"
    /\ err = "export"
    /\ file.opened
    /\ Len(file.rows) = 2
    /\ Len(entries) = 4

\* The URI the specification words for one get_uri call, the numbers in
\* written-out decimal text.
ExpectedUri(r) ==
    IF r.size # None
    THEN r.base \o "?" \o r.query
             \o "&$skip=" \o DecimalText(r.page * r.size[1])
             \o "&$top=" \o DecimalText(r.size[1])
             \o "&$metadata=" \o (IF r.metadata THEN "on" ELSE "off")
    ELSE r.base \o "?" \o r.query
             \o "&$metadata=" \o (IF r.metadata THEN "on" ELSE "off")

\* C8: get_uri returns base ? query &$skip=(page * size) &$top=size
\* &$metadata=on|off when a size is given, and base ? query &$metadata=on|off,
\* whatever the page index, when none is; (true, "https://x", "q=1", 2, 500)
\* gives "https://x?q=1&$skip=1000&$top=500&$metadata=on".
C8_GetUri ==
    \A i \in 1..Len(requests) :
        LET r == requests[i] IN
        /\ r.uri = ExpectedUri(r)
        /\ (/\ r.metadata /\ r.base = "https://x" /\ r.query = "q=1"
            /\ r.page = 2 /\ r.size = Some(500)) =>
              r.uri = "https://x?q=1&$skip=1000&$top=500&$metadata=on"
        /\ (/\ ~r.metadata /\ r.base = "https://x" /\ r.query = "q=1"
            /\ r.size = None) =>
              r.uri = "https://x?q=1&$metadata=off"

C8_Witness ==
    requests = <<[metadata |-> TRUE, base |-> "https://x", query |-> "q=1",
                  page |-> 2, size |-> Some(500),
                  uri |-> "https://x?q=1&$skip=1000&$top=500&$metadata=on"]>>

\* C9: the request for page 0 is the first request and the only one built
\* with the metadata flag on ($metadata=on in its URI), and its response is
\* the only one read as ResponseWithMetaData; every request for a page >= 1
\* is built with the flag off and its response read as Response.
C9_MetadataOnFirstPageOnly ==
    /\ \A i \in 1..Len(requests) :
          /\ requests[i].metadata = (requests[i].page = 0)
          /\ (requests[i].page = 0) = (i = 1)
          /\ requests[i].uri =
                base_uri \o "?" \o query
                    \o "&$skip=" \o DecimalText(requests[i].page * size)
                    \o "&$top=1000"
                    \o (IF i = 1 THEN "&$metadata=on" ELSE "&$metadata=off")
    /\ \A i \in 1..Len(responses) :
          /\ responses[i].page = requests[i].page
          /\ responses[i].envelope =
                (IF responses[i].page = 0 THEN "ResponseWithMetaData"
                 ELSE "Response")

C9_Witness ==
    /\ pc = "done"
    /\ Len(requests) = 3
    /\ Len(responses) = 3
    /\ requests[1].metadata
    /\ ~requests[2].metadata
    /\ ~requests[3].metadata
    /\ responses[1].envelope = "ResponseWithMetaData"
    /\ responses[3].envelope = "Response"

\* C10: with no destination configured, the exporter is never invoked and
\* the destination is never opened or written; once every page has been
\* retrieved the run has no export failure, and it is over only as Ok(()).
C10_NoDestinationNoExport ==
    (pc # "start" /\ cfg.csv = None) =>
        /\ ~exported
        /\ file = [opened |-> FALSE, header |-> FALSE, rows |-> <<>>]
        /\ written = 0
        /\ Retrieved => (pc \in {"collected", "done"} /\ err = "none")

C10_Witness ==
    /\ pc = "done"
    /\ cfg.csv = None
    /\ err = "none"
    /\ Len(responses) = 2
    /\ Len(entries) = 3
    /\ ~file.opened

\* main() has returned or panicked.
Terminated == pc \in {"done", "failed", "panicked"}

\* Every response received is a successful one.
AllOk == \A i \in 1..Len(responses) : responses[i].outcome = "ok"

\* C11: every run terminates (requests resolving in the end); one that ends
\* as an error does so with the first error it met, nothing having gone
\* wrong before; one that ends as Ok(()) has every page 0 .. count/size
\* retrieved and the export either complete or skipped for want of a
\* destination.
C11_Terminates ==
    /\ <>Terminated
    /\ [](pc = "failed" =>
            /\ err # "none"
            /\ \A i \in 1..Len(responses) :
                  responses[i].outcome # "ok" =>
                      (i = Len(responses) /\ err = responses[i].outcome)
            /\ err \in {"transport", "status", "deserialize"} =>
                  (responses # <<>> /\ ~AllOk /\ ~exported)
            /\ err = "config" => (requests = <<>> /\ ~exported)
            /\ err = "export" => (AllOk /\ exported))
    /\ [](pc = "done" =>
            /\ err = "none"
            /\ AllOk
            /\ Len(responses) = count \div size + 1
            /\ \A i \in 1..Len(responses) : responses[i].page = i - 1
            /\ IF cfg.csv = None
               THEN ~exported /\ ~file.opened
               ELSE exported /\ file.opened /\ written = Len(entries))

C11_Witness ==
    /\ pc = "done"
    /\ err = "none"
    /\ Len(responses) = 3
    /\ exported
    /\ written = Len(entries)
    /\ written = 6

\* C12: at most one request is unresolved at any time, and the request for
\* a page is issued only with every earlier page answered successfully and
\* its entries in the accumulator.
C12_OneInFlight ==
    /\ inflight \in {0, 1}
    /\ Len(requests) = Len(responses) + inflight
    /\ inflight = 1 =>
          /\ pc \in {"await0", "await"}
          /\ \A i \in 1..Len(responses) : responses[i].outcome = "ok"
          /\ entries = Concat(responses, Len(responses))

C12_Witness ==
    /\ pc = "await"
    /\ inflight = 1
    /\ Len(requests) = 3
    /\ Len(responses) = 2
    /\ Len(entries) = 4

\* C13: no page index is requested twice, and a failed request is the last
\* thing the run does on the network: it is the last request issued, nothing
\* is in flight after it, and main() has returned its error.
C13_NoRetry ==
    /\ \A i, j \in 1..Len(requests) :
          i # j => requests[i].page # requests[j].page
    /\ \A i \in 1..Len(responses) :
          responses[i].outcome # "ok" =>
              /\ i = Len(responses)
              /\ Len(requests) = i
              /\ inflight = 0
              /\ pc = "failed"

C13_Witness ==
    /\ pc = "failed"
    /\ err = "transport"
    /\ Len(requests) = 2
    /\ Len(responses) = 2
    /\ count = 2500

ConfigFailed ==
    \/ err = "config"
    \/ pc = "panicked" /\ query = ""

\* C16: a run that fails in its configuration has ended there: it has
\* issued no request, received no response, and has not invoked the
\* exporter or touched the destination.
C16_ConfigErrorFirst ==
    ConfigFailed =>
        /\ pc \in {"failed", "panicked"}
        /\ requests = <<>>
        /\ responses = <<>>
        /\ inflight = 0
        /\ ~exported
        /\ file = [opened |-> FALSE, header |-> FALSE, rows |-> <<>>]

C16_Witness ==
    /\ pc = "failed"
    /\ err = "config"
    /\ requests = <<>>

\* C14: once page 0 has given the count, the requests issued never exceed
\* count/size + 1 and are exactly that many when the loop is left, with one
\* page index taken per page received, whether the pages received were
\* empty, short, or longer than the page size.
C14_CountAloneDecides ==
    (/\ responses # <<>>
     /\ responses[1].outcome = "ok"
     /\ pc # "panicked") =>
        /\ Len(requests) <= count \div size + 1
        /\ pc = "loop" => page = Len(responses)
        /\ pc = "collected" =>
              /\ Len(requests) = count \div size + 1
              /\ Len(responses) = Len(requests)

C14_Witness ==
    /\ pc = "collected"
    /\ server = OversizeServer
    /\ count = 2500
    /\ Len(requests) = 3
    /\ Len(responses[1].entries) = size + 1
    /\ responses[2].entries = <<>>
    /\ Len(responses[3].entries) = 1

\* C17: against a consistent server holding n records, no request fails,
\* the i-th request is answered with records (i-1)*size + 1 ..
\* min(i*size, n), and the collection the loop ends with is records 1 .. n,
\* each once, in the server's order.
C17_Complete ==
    server.held # None =>
        LET n == server.held[1] IN
        /\ pc # "failed"
        /\ \A i \in 1..Len(responses) :
              /\ responses[i].outcome = "ok"
              /\ responses[i].entries =
                    [k \in 1..(Min(i * size, n) - Min((i - 1) * size, n)) |->
                        (i - 1) * size + k]
        /\ pc = "collected" =>
              /\ count = n
              /\ entries = [k \in 1..n |-> k]

C17_Witness ==
    /\ pc = "collected"
    /\ server = ConsistentServer(2500)
    /\ Len(requests) = 3
    /\ Len(entries) = 2500
    /\ entries[1] = 1
    /\ entries[1001] = 1001
    /\ entries[2500] = 2500

\* C18: for every page index >= 1 the loop takes, size <= page * size <=
\* count, and the range logged is start = page * size <= end =
\* min((page + 1) * size, count) <= count, the i32 product behind end never
\* overflowing (no panic, no wrapped value).
C18_RangeWithinCount ==
    pc # "range" =>
        /\ pc = "ranged"
        /\ size <= page * size
        /\ page * size <= count
        /\ log[1].start = page * size
        /\ log[1].start <= log[1].end
        /\ log[1].end <= count
        /\ log[1].end =
              (IF page + 1 > count \div size THEN count ELSE (page + 1) * size)

====
